---- MODULE Spec2Model ----
(***************************************************************************)
(* Survey taxonomy/aggregation pipeline (WGK.py, main) and the load cache  *)
(* of the radar-chart front end (app.py).                                  *)
(*                                                                         *)
(* Tables are sequences of records (one record per row, in row order).     *)
(* Text cells are sequences of one-character strings, so that splitting a  *)
(* comma list and parsing an integer are computed, not assumed.  An empty  *)
(* text is an empty CSV field, which read_csv loads as NaN.                *)
(***************************************************************************)
EXTENDS Integers, Sequences, FiniteSets, TLC

VARIABLES
    pc,            \* position of main() in WGK.py
    exists,        \* which of the four input paths exist
    outdir,        \* args.outdir on disk: "absent", "dir" or "file"
    outdir0,       \* args.outdir on disk when the run began
    artifacts,     \* parquet files written to outdir by this run
    error,         \* how the run ended, if it failed
    df1, df2, df3, df4,                       \* the four loaded frames
    df_long, stats_df, pivot_df, domain_stats, \* the derived frames
    files,         \* app.py: the three files the front end loads
    cache,         \* app.py: st.cache_data entries of the three loaders
    view,          \* app.py: what the last script run got from each loader
    reads,         \* app.py: the files the last script run read from storage
    lastOp         \* app.py: the last thing that happened to the process

vars == <<pc, exists, outdir, outdir0, artifacts, error, df1, df2, df3, df4,
          df_long, stats_df, pivot_df, domain_stats,
          files, cache, view, reads, lastOp>>

pipeVars == <<pc, exists, outdir, outdir0, artifacts, error, df1, df2, df3, df4,
              df_long, stats_df, pivot_df, domain_stats>>

appVars == <<files, cache, view, reads, lastOp>>

-----------------------------------------------------------------------------
(* Bounds of the model *)

MaxMapping == 2      \* rows of the mapping file
MaxItems == 2        \* rows of the item table
MaxSubdomains == 2   \* rows of the subdomain table
MaxEmployees == 2    \* rows of the wide responses table
MaxVersion == 2      \* distinct contents a front-end file goes through

-----------------------------------------------------------------------------
(* Values *)

\* A missing numeric cell (pandas NaN).  Ids and scores are positive.
NaN == -1

Range(s) == {s[i] : i \in DOMAIN s}

SeqsUpTo(S, n) == UNION {[1..k -> S] : k \in 1..n}

Digits == {"0", "1", "2", "3", "4", "5", "6", "7", "8", "9"}

DigitVal(c) ==
    CASE c = "0" -> 0 [] c = "1" -> 1 [] c = "2" -> 2 [] c = "3" -> 3
      [] c = "4" -> 4 [] c = "5" -> 5 [] c = "6" -> 6 [] c = "7" -> 7
      [] c = "8" -> 8 [] c = "9" -> 9

\* Whether int(tok) succeeds on a text without whitespace, sign or underscore.
IsIntLiteral(tok) == Len(tok) > 0 /\ \A i \in DOMAIN tok : tok[i] \in Digits

RECURSIVE IntValue(_)
IntValue(tok) ==
    IF Len(tok) = 0 THEN 0
    ELSE 10 * IntValue(SubSeq(tok, 1, Len(tok) - 1)) + DigitVal(tok[Len(tok)])

\* str.split(','): the pieces of s between commas, empty pieces included.
RECURSIVE SplitComma(_)
SplitComma(s) ==
    IF \A i \in DOMAIN s : s[i] /= ","
    THEN <<s>>
    ELSE LET k == CHOOSE i \in DOMAIN s :
                      s[i] = "," /\ \A j \in 1..(i - 1) : s[j] /= ","
         IN <<SubSeq(s, 1, k - 1)>> \o SplitComma(SubSeq(s, k + 1, Len(s)))

RECURSIVE Flatten(_)
Flatten(ss) == IF Len(ss) = 0 THEN <<>> ELSE Head(ss) \o Flatten(Tail(ss))

-----------------------------------------------------------------------------
(* Fixed tables of the program *)

manual_map ==
    [q \in {"ZT117", "ZT142", "ZT121", "ZT123", "ZT144", "ZT118", "ZT125",
            "ZT126", "ZT127", "ZT134", "ZT135", "ZT136", "ZT143", "ZT119",
            "ZT129", "ZT124", "ZT128", "ZT122", "ZT131", "ZT145", "ZT132",
            "ZT74", "ZT133", "ZT130", "ZT146", "ZT120", "ZT137", "ZT138",
            "ZT139", "ZT140", "ZT141"} |->
        CASE q = "ZT117" -> 7 [] q = "ZT142" -> 6 [] q = "ZT121" -> 14
          [] q = "ZT123" -> 14 [] q = "ZT144" -> 12 [] q = "ZT118" -> 24
          [] q = "ZT125" -> 18 [] q = "ZT126" -> 18 [] q = "ZT127" -> 19
          [] q = "ZT134" -> 1 [] q = "ZT135" -> 1 [] q = "ZT136" -> 1
          [] q = "ZT143" -> 13 [] q = "ZT119" -> 24 [] q = "ZT129" -> 15
          [] q = "ZT124" -> 18 [] q = "ZT128" -> 16 [] q = "ZT122" -> 14
          [] q = "ZT131" -> 11 [] q = "ZT145" -> 24 [] q = "ZT132" -> 19
          [] q = "ZT74" -> 19 [] q = "ZT133" -> 1 [] q = "ZT130" -> 15
          [] q = "ZT146" -> 20 [] q = "ZT120" -> 13 [] q = "ZT137" -> 3
          [] q = "ZT138" -> 3 [] q = "ZT139" -> 3 [] q = "ZT140" -> 3
          [] q = "ZT141" -> 3]

reverse_items ==
    {"ZT101", "ZT102", "ZT103", "ZT13", "ZT14", "ZT15", "ZT16", "ZT18", "ZT19",
     "ZT20", "ZT21", "ZT22", "ZT23", "ZT24", "ZT25", "ZT26", "ZT28", "ZT29",
     "ZT30", "ZT33", "ZT34", "ZT4", "ZT43", "ZT60", "ZT70", "ZT74", "ZT78",
     "ZT79", "ZT80", "ZT81", "ZT85", "ZT89"}

\* The four input paths, in the order line 60 checks them.
InputPaths == <<"mapping", "items", "subdomains", "responses">>

OutputFiles == {"df_long.parquet", "domain_stats.parquet",
                "sub_stats.parquet", "pivot_df.parquet"}

NoError == [kind |-> "none", path |-> "", token |-> <<>>, subdomain_id |-> NaN]

-----------------------------------------------------------------------------
(* Input files the run may find (bounded) *)

Codes == {"ZT74", "ZT117", "ZT1"}   \* override+reverse, override only, neither
SubIds == {7, 19}
Teams == {"A", "B"}
Scores == {NaN, 2, 9}

\* Text of a domainId field of the subdomain file; <<>> is an empty field.
CsvTexts == {<<>>, <<"1">>, <<"2">>, <<"1", ",", "2">>, <<"2", ",", "2">>,
             <<"1", ",", "x">>}

MappingTables == SeqsUpTo([question_code : Codes], MaxMapping)

ItemTables == SeqsUpTo([code : Codes, subdomain_id : SubIds \cup {NaN}], MaxItems)

SubdomainTables ==
    SeqsUpTo([id : SubIds \cup {NaN}, domainId : CsvTexts], MaxSubdomains)

\* A wide responses table: the question columns and one score per column and row.
ResponseTables(cols) ==
    {[cols |-> cols, rows |-> rs] :
        rs \in SeqsUpTo([team : Teams, scores : [1..Len(cols) -> Scores]],
                        MaxEmployees)}

Q(c) == [question_code |-> c]
Item(c, s) == [code |-> c, subdomain_id |-> s]
Sub(i, t) == [id |-> i, domainId |-> t]

TwoSubdomains == <<Sub(7, <<"1">>), Sub(19, <<"1", ",", "2">>)>>
OneResponse == [cols |-> <<"ZT74", "ZT1">>,
                rows |-> <<[team |-> "A", scores |-> <<2, 9>>]>>]

\* Every mapping and item table, over a fixed two-subdomain taxonomy.
ResolverInputs ==
    {[mapping |-> m, items |-> it, subdomains |-> TwoSubdomains,
      responses |-> OneResponse] : m \in MappingTables, it \in ItemTables}

\* Every subdomain table, under a resolved and an unresolved mapping.
DomainListInputs ==
    {[mapping |-> <<Q("ZT74"), Q("ZT1")>>, items |-> it, subdomains |-> sd,
      responses |-> OneResponse] :
        it \in {<<Item("ZT1", 7)>>, <<Item("ZT74", 7)>>},
        sd \in SubdomainTables}

\* Every responses table over two question columns, the second of which is
\* or is not in the mapping file.
ResponseInputs ==
    {[mapping |-> m, items |-> <<Item("ZT117", 7)>>, subdomains |-> TwoSubdomains,
      responses |-> r] :
        m \in {<<Q("ZT74"), Q("ZT117")>>, <<Q("ZT74")>>},
        r \in ResponseTables(<<"ZT74", "ZT117">>)}

Inputs == ResolverInputs \cup DomainListInputs \cup ResponseInputs

-----------------------------------------------------------------------------
(* Steps 2-5: the taxonomy resolver *)

\* Line 71-76: left merge of the mapping with the item table on
\* question_code = code; an unmatched row gets a NaN subdomain_id.
MergeItemsRow(row, items) ==
    LET Hit(r) == r.code = row.question_code
        hits == SelectSeq(items, Hit)
    IN IF Len(hits) = 0
       THEN <<[question_code |-> row.question_code, subdomain_id |-> NaN]>>
       ELSE [i \in 1..Len(hits) |->
                [question_code |-> row.question_code,
                 subdomain_id |-> hits[i].subdomain_id]]

MergedItems(mapping, items) ==
    Flatten([i \in 1..Len(mapping) |-> MergeItemsRow(mapping[i], items)])

\* Line 88-91: fillna with the manual map, the override winning over the join.
FillNaOverrideFirst(row) ==
    [row EXCEPT !.subdomain_id =
        IF row.question_code \in DOMAIN manual_map
        THEN manual_map[row.question_code] ELSE row.subdomain_id]

\* Line 88-91: subdomain_id.fillna(question_code.map(manual_map)).
FillNa(row) ==
    [row EXCEPT !.subdomain_id =
        IF row.subdomain_id /= NaN THEN row.subdomain_id
        ELSE IF row.question_code \in DOMAIN manual_map
             THEN manual_map[row.question_code] ELSE NaN]

ManualFilled(frame) == [i \in 1..Len(frame) |-> FillNa(frame[i])]

\* Line 94-99: left merge with the subdomain table on subdomain_id = id.  NaN
\* keys match NaN keys; an unmatched row gets an empty (NaN) domainId.
MergeSubdomainsRow(row, subdomains) ==
    LET Hit(r) == r.id = row.subdomain_id
        hits == SelectSeq(subdomains, Hit)
    IN IF Len(hits) = 0
       THEN <<[question_code |-> row.question_code,
               subdomain_id |-> row.subdomain_id, domainId |-> <<>>]>>
       ELSE [i \in 1..Len(hits) |->
                [question_code |-> row.question_code,
                 subdomain_id |-> row.subdomain_id,
                 domainId |-> hits[i].domainId]]

MergedSubdomains(frame, subdomains) ==
    Flatten([i \in 1..Len(frame) |-> MergeSubdomainsRow(frame[i], subdomains)])

\* Line 67: the dtype read_csv infers for a column of these texts.
InferDtype(texts) ==
    IF \E t \in texts : t /= <<>> /\ ~IsIntLiteral(t) THEN "object"
    ELSE IF <<>> \in texts THEN "float64" ELSE "int64"

\* Line 94-99: an integer column that gains a NaN in the merge becomes float.
DomainIdDtype(frame, subdomains) ==
    LET loaded == InferDtype({subdomains[i].domainId : i \in DOMAIN subdomains})
    IN IF loaded = "int64" /\ \E i \in DOMAIN frame : frame[i].domainId = <<>>
       THEN "float64" ELSE loaded

\* Line 102: astype(str) of one cell.
AsStr(cell, dtype) ==
    IF cell = <<>> THEN <<"n", "a", "n">>
    ELSE IF dtype = "float64" THEN cell \o <<".", "0">>
    ELSE cell

\* Line 102-103: astype(str).str.split(',') and explode: one row per piece.
ExplodeRow(row, dtype) ==
    LET pieces == SplitComma(AsStr(row.domainId, dtype))
    IN [i \in 1..Len(pieces) |-> [row EXCEPT !.domainId = pieces[i]]]

Exploded(frame, subdomains) ==
    LET dtype == DomainIdDtype(frame, subdomains)
    IN Flatten([i \in 1..Len(frame) |-> ExplodeRow(frame[i], dtype)])

\* Line 104: astype(int) raises ValueError on the first text int() rejects.
BadTokens(frame) == {i \in DOMAIN frame : ~IsIntLiteral(frame[i].domainId)}

FirstBad(frame) == CHOOSE i \in BadTokens(frame) : \A j \in BadTokens(frame) : i <= j

CastInt(frame) ==
    [i \in 1..Len(frame) |-> [frame[i] EXCEPT !.domainId = IntValue(frame[i].domainId)]]

-----------------------------------------------------------------------------
(* main() of WGK.py, one action per numbered step *)

Fail(e) ==
    /\ pc' = "failed"
    /\ error' = e

\* Line 50-51: chdir and makedirs(outdir, exist_ok=True), before any check.
Prepare ==
    /\ pc = "start"
    /\ IF outdir = "file"
       THEN /\ Fail([NoError EXCEPT !.kind = "FileExistsError", !.path = "outdir"])
            /\ UNCHANGED outdir
       ELSE /\ outdir' = "dir"
            /\ pc' = "verify"
            /\ UNCHANGED error
    /\ UNCHANGED <<exists, outdir0, artifacts, df1, df2, df3, df4,
                   df_long, stats_df, pivot_df, domain_stats, appVars>>

\* Line 60 with the loop cut to its first path.
MissingPathsMappingOnly == {i \in {1} : ~exists[InputPaths[i]]}

\* Line 60-61: the input paths that do not exist.
MissingPaths == {i \in DOMAIN InputPaths : ~exists[InputPaths[i]]}

\* Line 60-62: parser.error on the first input path that does not exist.
VerifyInputs ==
    /\ pc = "verify"
    /\ IF MissingPaths /= {}
       THEN LET k == CHOOSE i \in MissingPaths : \A j \in MissingPaths : i <= j
            IN Fail([NoError EXCEPT !.kind = "usage", !.path = InputPaths[k]])
       ELSE pc' = "load" /\ UNCHANGED error
    /\ UNCHANGED <<exists, outdir, outdir0, artifacts, df1, df2, df3, df4,
                   df_long, stats_df, pivot_df, domain_stats, appVars>>

\* Line 65-68: read the four files.
LoadData ==
    /\ pc = "load"
    /\ \E in \in Inputs :
        /\ df1' = in.mapping
        /\ df2' = in.items
        /\ df3' = in.subdomains
        /\ df4' = in.responses
    /\ pc' = "merge_items"
    /\ UNCHANGED <<exists, outdir, outdir0, artifacts, error,
                   df_long, stats_df, pivot_df, domain_stats, appVars>>

\* Line 71-76.
MergeItems ==
    /\ pc = "merge_items"
    /\ df1' = MergedItems(df1, df2)
    /\ pc' = "manual_map"
    /\ UNCHANGED <<exists, outdir, outdir0, artifacts, error, df2, df3, df4,
                   df_long, stats_df, pivot_df, domain_stats, appVars>>

\* Line 79-91.
ManualFallback ==
    /\ pc = "manual_map"
    /\ df1' = ManualFilled(df1)
    /\ pc' = "merge_subdomains"
    /\ UNCHANGED <<exists, outdir, outdir0, artifacts, error, df2, df3, df4,
                   df_long, stats_df, pivot_df, domain_stats, appVars>>

\* Line 94-99.
MergeSubdomains ==
    /\ pc = "merge_subdomains"
    /\ df1' = MergedSubdomains(df1, df3)
    /\ pc' = "explode"
    /\ UNCHANGED <<exists, outdir, outdir0, artifacts, error, df2, df3, df4,
                   df_long, stats_df, pivot_df, domain_stats, appVars>>

\* Line 102-103.
ExplodeDomains ==
    /\ pc = "explode"
    /\ df1' = Exploded(df1, df3)
    /\ pc' = "astype_int"
    /\ UNCHANGED <<exists, outdir, outdir0, artifacts, error, df2, df3, df4,
                   df_long, stats_df, pivot_df, domain_stats, appVars>>

\* Line 104.
CastDomainInt ==
    /\ pc = "astype_int"
    /\ IF BadTokens(df1) /= {}
       THEN /\ Fail([NoError EXCEPT !.kind = "ValueError",
                                    !.token = df1[FirstBad(df1)].domainId])
            /\ UNCHANGED df1
       ELSE /\ df1' = CastInt(df1)
            /\ pc' = "melt"
            /\ UNCHANGED error
    /\ UNCHANGED <<exists, outdir, outdir0, artifacts, df2, df3, df4,
                   df_long, stats_df, pivot_df, domain_stats, appVars>>

-----------------------------------------------------------------------------
(* Step 6: melt and annotate; step 6a: reverse coding *)

\* Line 109-110: melt, one row per question column and response row, column by
\* column.  employee_id is the row's position in the wide table.
Melted(wide) ==
    Flatten([c \in 1..Len(wide.cols) |->
        [i \in 1..Len(wide.rows) |->
            [employee_id |-> i, team |-> wide.rows[i].team,
             question_code |-> wide.cols[c], score |-> wide.rows[i].scores[c]]]])

\* Line 111-112 as an inner merge: a question without taxonomy rows is dropped.
AnnotateRowInner(row, taxonomy) ==
    LET Hit(t) == t.question_code = row.question_code
        hits == SelectSeq(taxonomy, Hit)
    IN [i \in 1..Len(hits) |->
           [employee_id |-> row.employee_id, team |-> row.team,
            question_code |-> row.question_code, score |-> row.score,
            subdomain_id |-> hits[i].subdomain_id,
            domainId |-> hits[i].domainId]]

\* Line 111-112: left merge with the taxonomy on question_code.
AnnotateRow(row, taxonomy) ==
    LET Hit(t) == t.question_code = row.question_code
        hits == SelectSeq(taxonomy, Hit)
    IN IF Len(hits) = 0
       THEN <<[employee_id |-> row.employee_id, team |-> row.team,
               question_code |-> row.question_code, score |-> row.score,
               subdomain_id |-> NaN, domainId |-> NaN]>>
       ELSE [i \in 1..Len(hits) |->
                [employee_id |-> row.employee_id, team |-> row.team,
                 question_code |-> row.question_code, score |-> row.score,
                 subdomain_id |-> hits[i].subdomain_id,
                 domainId |-> hits[i].domainId]]

Annotated(long, taxonomy) ==
    Flatten([i \in 1..Len(long) |-> AnnotateRow(long[i], taxonomy)])

\* Line 122-124 with the mask ignored: every score is recoded.
RecodeEveryRow(row) ==
    [row EXCEPT !.score = IF row.score = NaN THEN NaN ELSE 11 - row.score]

\* Line 122-124: score = 11 - score where question_code is in reverse_items.
RecodeRow(row) ==
    IF row.question_code \in reverse_items
    THEN [row EXCEPT !.score = IF row.score = NaN THEN NaN ELSE 11 - row.score]
    ELSE row

Recoded(long) == [i \in 1..Len(long) |-> RecodeRow(long[i])]

-----------------------------------------------------------------------------
(* Steps 7-9: grouped statistics.  A statistic is an exact fraction in      *)
(* lowest terms; den = 0 is NaN.  std_score holds the square of the sample  *)
(* standard deviation, which determines it.                                 *)

RECURSIVE GCD(_, _)
GCD(a, b) == IF b = 0 THEN a ELSE GCD(b, a % b)

Abs(a) == IF a < 0 THEN -a ELSE a

NaNStat == [num |-> 0, den |-> 0]

Frac(n, d) ==
    LET g == GCD(Abs(n), d) IN [num |-> n \div g, den |-> d \div g]

FracSub(a, b) ==
    IF a.den = 0 \/ b.den = 0 THEN NaNStat
    ELSE Frac(a.num * b.den - b.num * a.den, a.den * b.den)

FracAdd(a, b) ==
    IF a.den = 0 \/ b.den = 0 THEN NaNStat
    ELSE Frac(a.num * b.den + b.num * a.den, a.den * b.den)

RECURSIVE SumSeq(_)
SumSeq(xs) == IF Len(xs) = 0 THEN 0 ELSE Head(xs) + SumSeq(Tail(xs))

SumSquares(xs) == SumSeq([i \in 1..Len(xs) |-> xs[i] * xs[i]])

\* Line 24: Series.quantile(qn/qd), linear interpolation between the two
\* order statistics around position (n - 1) * qn / qd; NaN on no values.
Quantile(xs, qn, qd) ==
    IF Len(xs) = 0 THEN NaNStat
    ELSE LET sorted == SortSeq(xs, LAMBDA a, b : a < b)
             p == (Len(xs) - 1) * qn
             lo == (p \div qd) + 1
             hi == IF lo < Len(xs) THEN lo + 1 ELSE lo
         IN Frac(sorted[lo] * qd + (sorted[hi] - sorted[lo]) * (p % qd), qd)

\* Line 22-24.
iqr(xs) == FracSub(Quantile(xs, 3, 4), Quantile(xs, 1, 4))

Mean(xs) == IF Len(xs) = 0 THEN NaNStat ELSE Frac(SumSeq(xs), Len(xs))

\* Sample variance (ddof = 1); NaN below two values.
Variance(xs) ==
    IF Len(xs) < 2 THEN NaNStat
    ELSE Frac(Len(xs) * SumSquares(xs) - SumSeq(xs) * SumSeq(xs),
              Len(xs) * (Len(xs) - 1))

\* The scores of a group's rows, NaN skipped as the aggregations skip it.
GroupScores(group) ==
    LET Scored(r) == r.score /= NaN
        rows == SelectSeq(group, Scored)
    IN [i \in 1..Len(rows) |-> rows[i].score]

\* Line 127-133: groupby(team, domainId, subdomain_id), rows with a NaN key
\* dropped; one row per key that occurs.
SubdomainStats(long) ==
    LET keys == {<<long[i].team, long[i].domainId, long[i].subdomain_id>> :
                    i \in {j \in DOMAIN long : /\ long[j].domainId /= NaN
                                               /\ long[j].subdomain_id /= NaN}}
        Row(k) ==
            LET Pick(r) == <<r.team, r.domainId, r.subdomain_id>> = k
                xs == GroupScores(SelectSeq(long, Pick))
            IN [team |-> k[1], domainId |-> k[2], subdomain_id |-> k[3],
                median_score |-> Quantile(xs, 1, 2), mean_score |-> Mean(xs),
                std_score |-> Variance(xs), IQR_score |-> iqr(xs)]
    IN {Row(k) : k \in keys}

StatNames == {"median_score", "mean_score", "std_score", "IQR_score"}

\* Line 136-140: pivot_table drops the stat rows that are NaN throughout,
\* puts (domainId, subdomain_id) in the index and (statistic, team) in the
\* columns, and drops the columns that are NaN throughout.
Pivoted(stats) ==
    LET kept == {r \in stats : \E s \in StatNames : r[s] /= NaNStat}
        index == {<<r.domainId, r.subdomain_id>> : r \in kept}
        columns == {c \in StatNames \X Teams :
                        \E r \in kept : r.team = c[2] /\ r[c[1]] /= NaNStat}
        Cell(k, c) ==
            IF \E r \in kept : <<r.domainId, r.subdomain_id, r.team>> = <<k[1], k[2], c[2]>>
            THEN (CHOOSE r \in kept :
                    <<r.domainId, r.subdomain_id, r.team>> = <<k[1], k[2], c[2]>>)[c[1]]
            ELSE NaNStat
    IN [k \in index |-> [c \in columns |-> Cell(k, c)]]

\* Step 9 as a re-aggregation of the subdomain rows: the mean of their means.
DomainStatsFromSubdomainRows(long) ==
    LET stats == SubdomainStats(long)
        keys == {<<r.team, r.domainId>> : r \in stats}
        Row(k) ==
            LET Pick(r) == <<r.team, r.domainId>> = k
                xs == GroupScores(SelectSeq(long, Pick))
                subs == {r \in stats : <<r.team, r.domainId>> = k /\ r.mean_score.den /= 0}
                RECURSIVE Total(_)
                Total(S) == IF S = {} THEN Frac(0, 1)
                            ELSE LET r == CHOOSE x \in S : TRUE
                                 IN FracAdd(r.mean_score, Total(S \ {r}))
                t == Total(subs)
            IN [team |-> k[1], domainId |-> k[2],
                median_score |-> Quantile(xs, 1, 2),
                mean_score |-> IF subs = {} THEN NaNStat
                               ELSE Frac(t.num, t.den * Cardinality(subs)),
                std_score |-> Variance(xs), IQR_score |-> iqr(xs)]
    IN {Row(k) : k \in keys}

\* Line 143-149: groupby(team, domainId) over the long table itself.
DomainStats(long) ==
    LET keys == {<<long[i].team, long[i].domainId>> :
                    i \in {j \in DOMAIN long : long[j].domainId /= NaN}}
        Row(k) ==
            LET Pick(r) == <<r.team, r.domainId>> = k
                xs == GroupScores(SelectSeq(long, Pick))
            IN [team |-> k[1], domainId |-> k[2],
                median_score |-> Quantile(xs, 1, 2), mean_score |-> Mean(xs),
                std_score |-> Variance(xs), IQR_score |-> iqr(xs)]
    IN {Row(k) : k \in keys}

\* Line 107-113.
MeltAnnotate ==
    /\ pc = "melt"
    /\ df_long' = Annotated(Melted(df4), df1)
    /\ pc' = "recode"
    /\ UNCHANGED <<exists, outdir, outdir0, artifacts, error, df1, df2, df3, df4,
                   stats_df, pivot_df, domain_stats, appVars>>

\* Line 116-124.
RecodeReversed ==
    /\ pc = "recode"
    /\ df_long' = Recoded(df_long)
    /\ pc' = "sub_stats"
    /\ UNCHANGED <<exists, outdir, outdir0, artifacts, error, df1, df2, df3, df4,
                   stats_df, pivot_df, domain_stats, appVars>>

\* Line 127-133.
ComputeSubdomainStats ==
    /\ pc = "sub_stats"
    /\ stats_df' = SubdomainStats(df_long)
    /\ pc' = "pivot"
    /\ UNCHANGED <<exists, outdir, outdir0, artifacts, error, df1, df2, df3, df4,
                   df_long, pivot_df, domain_stats, appVars>>

\* Line 136-140.
Pivot ==
    /\ pc = "pivot"
    /\ pivot_df' = Pivoted(stats_df)
    /\ pc' = "domain_stats"
    /\ UNCHANGED <<exists, outdir, outdir0, artifacts, error, df1, df2, df3, df4,
                   df_long, stats_df, domain_stats, appVars>>

\* Line 143-149.
ComputeDomainStats ==
    /\ pc = "domain_stats"
    /\ domain_stats' = DomainStats(df_long)
    /\ pc' = "save"
    /\ UNCHANGED <<exists, outdir, outdir0, artifacts, error, df1, df2, df3, df4,
                   df_long, stats_df, pivot_df, appVars>>

\* Line 153-171: the four to_parquet calls, in order.
SaveOutputs ==
    /\ pc = "save"
    /\ artifacts' = OutputFiles
    /\ pc' = "done"
    /\ UNCHANGED <<exists, outdir, outdir0, error, df1, df2, df3, df4,
                   df_long, stats_df, pivot_df, domain_stats, appVars>>

-----------------------------------------------------------------------------
(* app.py: the three cached loaders and the script that calls them *)

\* A path that does not exist, a cache entry that is not there, a loader
\* that was not reached.  File contents are numbered from 1.
Absent == 0

\* Line 69-71: the loaders in call order, each named by the file it reads:
\* load_long(DATA), load_domain_map(BASE), load_question_map(BASE).
Loaders == <<"df_long.parquet", "domain_map.csv", "mapping_file.csv">>

AppFiles == Range(Loaders)

Contents == 1..MaxVersion

\* A loader whose decorator is ignored: the body runs on every call.
UncachedLoad(f, st) ==
    IF files[f] = Absent
    THEN [st EXCEPT !.stopped = TRUE]
    ELSE [st EXCEPT !.cache[f] = files[f], !.view[f] = files[f],
                    !.reads = @ \cup {f}]

\* Line 20-26, 31-41, 46-55: one call of a loader under @st.cache_data.  A hit
\* returns the entry; a miss runs the body, which stops the script when the
\* path does not exist and otherwise reads the file and stores the result.
CachedLoad(f, st) ==
    IF st.cache[f] /= Absent
    THEN [st EXCEPT !.view[f] = st.cache[f]]
    ELSE IF files[f] = Absent
    THEN [st EXCEPT !.stopped = TRUE]
    ELSE [st EXCEPT !.cache[f] = files[f], !.view[f] = files[f],
                    !.reads = @ \cup {f}]

\* Line 69-71: the calls in order, none after an st.stop().
RECURSIVE RunLoaders(_, _)
RunLoaders(fs, st) ==
    IF Len(fs) = 0 \/ st.stopped THEN st
    ELSE RunLoaders(Tail(fs), CachedLoad(Head(fs), st))

\* One run of the script (a page load or a widget interaction).
RunScript ==
    /\ LET st == RunLoaders(Loaders,
                    [cache |-> cache, view |-> [f \in AppFiles |-> Absent],
                     reads |-> {}, stopped |-> FALSE])
       IN /\ cache' = st.cache
          /\ view' = st.view
          /\ reads' = st.reads
    /\ lastOp' = "run"
    /\ UNCHANGED <<files, pipeVars>>

\* The pipeline (or an editor) replaces a file's content.
RewriteFile ==
    /\ \E f \in AppFiles, v \in Contents :
        /\ v /= files[f]
        /\ files' = [files EXCEPT ![f] = v]
    /\ lastOp' = "rewrite"
    /\ UNCHANGED <<cache, view, reads, pipeVars>>

\* Streamlit's "Clear cache" / st.cache_data.clear().
ClearCache ==
    /\ cache' = [f \in AppFiles |-> Absent]
    /\ lastOp' = "clear"
    /\ UNCHANGED <<files, view, reads, pipeVars>>

\* The server process is restarted: the in-memory cache is gone.
Restart ==
    /\ cache' = [f \in AppFiles |-> Absent]
    /\ view' = [f \in AppFiles |-> Absent]
    /\ reads' = {}
    /\ lastOp' = "restart"
    /\ UNCHANGED <<files, pipeVars>>

-----------------------------------------------------------------------------
(* Specifications *)

AppIdle ==
    /\ files = [f \in AppFiles |-> Absent]
    /\ cache = [f \in AppFiles |-> Absent]
    /\ view = [f \in AppFiles |-> Absent]
    /\ reads = {}
    /\ lastOp = "restart"

PipeIdle ==
    /\ pc = "start"
    /\ artifacts = {}
    /\ error = NoError
    /\ df1 = <<>> /\ df2 = <<>> /\ df3 = <<>> /\ df4 = <<>>
    /\ df_long = <<>> /\ stats_df = {} /\ pivot_df = <<>> /\ domain_stats = {}

\* The pipeline is started on any filesystem.
Init ==
    /\ PipeIdle
    /\ exists \in [Range(InputPaths) -> BOOLEAN]
    /\ outdir \in {"absent", "dir", "file"}
    /\ outdir0 = outdir
    /\ AppIdle

Next ==
    \/ Prepare
    \/ VerifyInputs
    \/ LoadData
    \/ MergeItems
    \/ ManualFallback
    \/ MergeSubdomains
    \/ ExplodeDomains
    \/ CastDomainInt
    \/ MeltAnnotate
    \/ RecodeReversed
    \/ ComputeSubdomainStats
    \/ Pivot
    \/ ComputeDomainStats
    \/ SaveOutputs

Spec == Init /\ [][Next]_vars

\* The front end is started on any set of files.
AppInit ==
    /\ PipeIdle
    /\ exists = [p \in Range(InputPaths) |-> TRUE]
    /\ outdir = "dir"
    /\ outdir0 = "dir"
    /\ files \in [AppFiles -> {Absent} \cup Contents]
    /\ cache = [f \in AppFiles |-> Absent]
    /\ view = [f \in AppFiles |-> Absent]
    /\ reads = {}
    /\ lastOp = "restart"

AppNext ==
    \/ RunScript
    \/ RewriteFile
    \/ ClearCache
    \/ Restart

AppSpec == AppInit /\ [][AppNext]_vars

-----------------------------------------------------------------------------
(* Properties *)

RECURSIVE SumOver(_, _)
SumOver(S, f) ==
    IF S = {} THEN 0
    ELSE LET x == CHOOSE y \in S : TRUE IN f[x] + SumOver(S \ {x}, f)

Max(a, b) == IF a >= b THEN a ELSE b

AfterRecode == {"sub_stats", "pivot", "domain_stats", "save", "done"}
AfterSubdomainStats == {"pivot", "domain_stats", "save", "done"}
AfterDomainStats == {"save", "done"}

\* The override's value for a question, NaN when it lists none.
Override(q) == IF q \in DOMAIN manual_map THEN manual_map[q] ELSE NaN

\* The subdomain_id cells the item table holds for a question.
ItemCells(q) == {df2[j].subdomain_id : j \in {k \in DOMAIN df2 : df2[k].code = q}}

\* The rows of a frame that are about a question.
RowsOf(frame, q) == {i \in DOMAIN frame : frame[i].question_code = q}

\* The domain ids the subdomain table lists for a subdomain id.
ListedDomains(sub) ==
    IF sub = NaN THEN {}
    ELSE {IntValue(t) :
            t \in {u \in UNION {Range(SplitComma(df3[j].domainId)) :
                                    j \in {k \in DOMAIN df3 : df3[k].id = sub}} :
                        IsIntLiteral(u)}}

\* No table repeats a key, no list repeats an id or holds a non-number, and
\* no subdomain row lacks an id.
CleanTaxonomyInputs ==
    /\ \A i, j \in DOMAIN df2 : df2[i].code = df2[j].code => i = j
    /\ \A i, j \in DOMAIN df3 : df3[i].id = df3[j].id => i = j
    /\ \A i \in DOMAIN df3 :
        /\ df3[i].id /= NaN
        /\ LET ps == SplitComma(df3[i].domainId)
           IN /\ \A a, b \in DOMAIN ps : ps[a] = ps[b] => a = b
              /\ df3[i].domainId /= <<>> => \A a \in DOMAIN ps : IsIntLiteral(ps[a])
    /\ \A i, j \in DOMAIN df1 : df1[i] = df1[j] => i = j

ResolverEnded == pc = "melt" \/ (pc = "failed" /\ error.kind = "ValueError")

\* C1: on inputs without repeated keys, repeated ids or non-numbers, the
\* resolver ends with a taxonomy table that holds, for every question of the
\* mapping, as many rows as its resolved subdomain has domain ids: none when
\* the question has no subdomain or the subdomain has no domain list.
TaxonomyRowsPerQuestion ==
    (ResolverEnded /\ CleanTaxonomyInputs) =>
        /\ pc = "melt"
        /\ \A i \in DOMAIN df1 :
            Cardinality(RowsOf(df1, df1[i].question_code))
                = Cardinality(ListedDomains(df1[i].subdomain_id))

\* C2: a question with no subdomain after the override fallback never makes
\* the run fail, and a run that ends has written its four artifacts.
UnmappedQuestionIsNotFatal ==
    /\ ~(/\ pc = "failed"
         /\ error.kind = "ValueError"
         /\ df1[FirstBad(df1)].subdomain_id = NaN)
    /\ pc = "done" => artifacts = OutputFiles

\* The score the wide table holds for a long row.
RawScore(row) ==
    df4.rows[row.employee_id].scores[
        CHOOSE c \in DOMAIN df4.cols : df4.cols[c] = row.question_code]

\* What one application of the reverse coding leaves in a long row.
RecodedOnce(row) ==
    IF row.question_code \in reverse_items /\ RawScore(row) /= NaN
    THEN 11 - RawScore(row) ELSE RawScore(row)

\* The mean of the once-recoded scores of the long rows numbered in G.
RecodedMean(G) ==
    LET S == {i \in G : RawScore(df_long[i]) /= NaN}
    IN IF S = {} THEN NaNStat
       ELSE Frac(SumOver(S, [i \in S |-> RecodedOnce(df_long[i])]), Cardinality(S))

\* C3: before the recoding step every long row holds its raw score; from then
\* on every long row, copies of the multi-domain explosion included, holds
\* 11 - raw if its question is in the reverse set and its raw score otherwise;
\* and the subdomain and the domain means are means of these recoded scores.
ReverseCodedOnceBeforeAggregation ==
    /\ pc = "recode" => \A i \in DOMAIN df_long : df_long[i].score = RawScore(df_long[i])
    /\ pc \in AfterRecode =>
        \A i \in DOMAIN df_long : df_long[i].score = RecodedOnce(df_long[i])
    /\ pc \in AfterSubdomainStats =>
        \A r \in stats_df :
            r.mean_score = RecodedMean({i \in DOMAIN df_long :
                /\ df_long[i].team = r.team /\ df_long[i].domainId = r.domainId
                /\ df_long[i].subdomain_id = r.subdomain_id})
    /\ pc \in AfterDomainStats =>
        \A r \in domain_stats :
            r.mean_score = RecodedMean({i \in DOMAIN df_long :
                df_long[i].team = r.team /\ df_long[i].domainId = r.domainId})

\* C3 witness: a finished run with two copies of a reverse-coded response
\* (one per domain), both 11 - raw, and an unreversed response left as it was.
ReverseCodedWitness ==
    /\ pc = "done"
    /\ \E i, j, k \in DOMAIN df_long :
        /\ i /= j
        /\ df_long[i].question_code = "ZT74" /\ df_long[j].question_code = "ZT74"
        /\ df_long[i].employee_id = df_long[j].employee_id
        /\ df_long[i].domainId /= df_long[j].domainId
        /\ RawScore(df_long[i]) = 2
        /\ df_long[i].score = 9 /\ df_long[j].score = 9
        /\ df_long[k].question_code = "ZT117"
        /\ RawScore(df_long[k]) = 2 /\ df_long[k].score = 2
    /\ \E r \in domain_stats : r.mean_score.den /= 0

\* C4: after the fallback, the subdomain ids of a question's rows are the
\* item table's values for it, with the override's value (NaN when it has
\* none) in place of every missing one, and the override's value alone when
\* the item table does not list the question.
OverrideFallback ==
    pc = "merge_subdomains" =>
        \A i \in DOMAIN df1 :
            LET q == df1[i].question_code
                got == {df1[j].subdomain_id : j \in RowsOf(df1, q)}
            IN /\ ItemCells(q) = {} => got = {Override(q)}
               /\ ItemCells(q) /= {} =>
                    got = (ItemCells(q) \ {NaN})
                            \cup (IF NaN \in ItemCells(q) THEN {Override(q)} ELSE {})

\* C4 witness: one question the override lists keeps the different subdomain
\* the item table gave it, another the item table misses gets the override's,
\* or one with neither stays NaN.
OverrideFallbackWitness ==
    /\ pc = "merge_subdomains"
    /\ \E i, j \in DOMAIN df1 :
        /\ df1[i].question_code = "ZT74" /\ ItemCells("ZT74") = {7}
        /\ df1[i].subdomain_id = 7 /\ manual_map["ZT74"] = 19
        /\ \/ /\ df1[j].question_code = "ZT117" /\ ItemCells("ZT117") = {}
              /\ df1[j].subdomain_id = manual_map["ZT117"]
           \/ /\ df1[j].question_code = "ZT1" /\ ItemCells("ZT1") = {NaN}
              /\ df1[j].subdomain_id = NaN

\* C5: every row of the subdomain-level and of the domain-level stat table
\* is backed by at least one long row of its group with a score.
EmptyGroupsOmitted ==
    /\ pc \in AfterSubdomainStats =>
        \A r \in stats_df : \E i \in DOMAIN df_long :
            /\ df_long[i].team = r.team /\ df_long[i].domainId = r.domainId
            /\ df_long[i].subdomain_id = r.subdomain_id
            /\ df_long[i].score /= NaN
    /\ pc \in AfterDomainStats =>
        \A r \in domain_stats : \E i \in DOMAIN df_long :
            /\ df_long[i].team = r.team /\ df_long[i].domainId = r.domainId
            /\ df_long[i].score /= NaN

NothingLoadedOrWritten ==
    /\ df1 = <<>> /\ df2 = <<>> /\ df3 = <<>> /\ df4 = <<>>
    /\ df_long = <<>> /\ stats_df = {} /\ pivot_df = <<>> /\ domain_stats = {}
    /\ artifacts = {}

SomeInputMissing == \E p \in Range(InputPaths) : ~exists[p]

\* The first of the input paths, in the order checked, that does not exist.
FirstMissingPath ==
    InputPaths[CHOOSE i \in DOMAIN InputPaths :
        /\ ~exists[InputPaths[i]]
        /\ \A j \in 1..(i - 1) : exists[InputPaths[j]]]

\* C6 as stated, for an output location that is absent or a directory: with
\* an input path missing the run fails naming a missing path, loads and
\* writes nothing, and leaves the filesystem as it found it.
MissingInputChangesNothing ==
    (SomeInputMissing /\ outdir0 /= "file") =>
        /\ NothingLoadedOrWritten
        /\ outdir = outdir0
        /\ pc = "failed" => error.kind = "usage" /\ ~exists[error.path]

\* C6 amended: with an input path missing and an output location that is
\* absent or a directory, the run never gets past the check: it loads and
\* writes nothing, and it fails with the usage error naming the first
\* missing path, the output directory having been created by then.
MissingInputFailsBeforeLoading ==
    (SomeInputMissing /\ outdir0 /= "file") =>
        /\ pc \in {"start", "verify", "failed"}
        /\ NothingLoadedOrWritten
        /\ pc /= "start" => outdir = "dir"
        /\ pc = "failed" => error.kind = "usage" /\ error.path = FirstMissingPath

\* C6 witness: the run failed on a missing items file after it had created
\* the output directory.
MissingInputWitness ==
    /\ pc = "failed" /\ error.kind = "usage" /\ error.path = "items"
    /\ exists["mapping"] /\ ~exists["items"]
    /\ outdir0 = "absent" /\ outdir = "dir"

\* C7: a run that fails on a non-numeric piece of a domain list has written
\* no artifact and its error identifies the subdomain the list belongs to.
MalformedListNamesSubdomain ==
    (/\ pc = "failed"
     /\ error.kind = "ValueError"
     /\ ~IsIntLiteral(error.token)
     /\ \E j \in DOMAIN df3 : error.token \in Range(SplitComma(df3[j].domainId))) =>
        /\ artifacts = {}
        /\ error.subdomain_id = df1[FirstBad(df1)].subdomain_id

EarlierLoaders(f) ==
    {Loaders[j] : j \in {k \in DOMAIN Loaders :
                            \E i \in DOMAIN Loaders : Loaders[i] = f /\ k < i}}

\* C8: once a loader's result is cached, every later call of it in a script
\* run (it is called when the loaders before it returned) returns that
\* cached content without reading storage, whatever the file holds by then;
\* and the entry changes only by a restart or a cache clear.
CacheServesRepeatedLoads ==
    [][\A f \in AppFiles :
        cache[f] /= Absent =>
            /\ (lastOp' = "run" /\ \A g \in EarlierLoaders(f) : view'[g] /= Absent) =>
                    view'[f] = cache[f] /\ f \notin reads'
            /\ cache'[f] /= cache[f] => lastOp' \in {"clear", "restart"}]_vars

\* C8 witness: a script run got the cached long table although the file on
\* disk holds other content by now, and read nothing for it.
StaleLoadWitness ==
    /\ lastOp = "run"
    /\ view["df_long.parquet"] /= Absent
    /\ files["df_long.parquet"] /= Absent
    /\ files["df_long.parquet"] /= view["df_long.parquet"]
    /\ cache["df_long.parquet"] = view["df_long.parquet"]
    /\ "df_long.parquet" \notin reads

\* C9: the domain-level table has one row per (team, domainId) of the long
\* table, and its mean is the mean of all scores of the long rows with that
\* team and domainId, whatever their subdomain and question.
DomainStatsPoolScores ==
    pc \in AfterDomainStats =>
        /\ {<<r.team, r.domainId>> : r \in domain_stats}
            = {<<df_long[i].team, df_long[i].domainId>> :
                    i \in {j \in DOMAIN df_long : df_long[j].domainId /= NaN}}
        /\ \A r \in domain_stats :
            LET S == {i \in DOMAIN df_long :
                        /\ df_long[i].team = r.team
                        /\ df_long[i].domainId = r.domainId
                        /\ df_long[i].score /= NaN}
                total == SumOver(S, [i \in S |-> df_long[i].score])
            IN /\ S = {} => r.mean_score = NaNStat
               /\ S /= {} => /\ r.mean_score.den /= 0
                             /\ r.mean_score.num * Cardinality(S)
                                    = total * r.mean_score.den

\* C9 witness: a domain whose pooled mean is not the mean of the means of
\* its subdomain rows.
PooledMeanWitness ==
    /\ pc = "done"
    /\ \E r \in domain_stats, a, b \in stats_df :
        /\ a.team = r.team /\ b.team = r.team
        /\ a.domainId = r.domainId /\ b.domainId = r.domainId
        /\ a.subdomain_id /= b.subdomain_id
        /\ a.mean_score.den /= 0 /\ b.mean_score.den /= 0 /\ r.mean_score.den /= 0
        /\ FracSub(FracAdd(r.mean_score, r.mean_score),
                   FracAdd(a.mean_score, b.mean_score)).num /= 0

\* The long rows of one cell of the wide table.
CellRows(e, q) ==
    {i \in DOMAIN df_long : df_long[i].employee_id = e /\ df_long[i].question_code = q}

WideCells == (DOMAIN df4.rows) \X Range(df4.cols)

====
